---- MODULE Spec2Model ----
(***************************************************************************)
(* World Bank labor force pipeline: the fetchers (load_data.download_data,  *)
(* Table4/fetch_data.py), the DuckDB loader (load_data.load_into_duckdb)    *)
(* and the query layer of the dashboard (app.get_regional_data,             *)
(* app.get_available_regions).                                              *)
(*                                                                          *)
(* Representation.  A SQL table and a CSV file body are bags (multisets) of *)
(* rows.  A file or table that may not exist is a record [exists, rows].    *)
(* An empty CSV field and the SQL NULL of a text column are the string NULL;*)
(* the SQL NULL of a numeric column is NullNum.  A DOUBLE is kept in tenths *)
(* (61.5 is 615), an average as the exact fraction [num, den].              *)
(***************************************************************************)
EXTENDS Integers, Sequences, FiniteSets, Bags, TLC

VARIABLES
    script,          \* the program this behaviour runs: load_data.py or fetch_data.py
    pc,              \* load_data.py: the statement main() executes next
    indicatorFile,   \* data/labor_force_data.csv
    dictionaryFile,  \* data/data_dictionary.csv
    db,              \* data/worldbank.duckdb: the committed tables
    response,        \* load_data.py: the HTTP response requests.get has returned
    http,            \* load_data.py, this run: requests made per dataset
    runStart,        \* load_data.py: files and tables as they were when this run started
    rerun,           \* this run follows a run of the loader over the same raw files
    pc4,             \* fetch_data.py: the call main() executes next
    files4,          \* fetch_data.py: data/<name>.csv per dataset name
    response4,       \* fetch_data.py: the HTTP response requests.get has returned
    http4,           \* fetch_data.py, this run: requests made per dataset
    runStart4,       \* fetch_data.py: the files as they were when this run started
    q,               \* app.py: arguments of the last get_regional_data call
    df,              \* app.py: result of the last get_regional_data call
    regions          \* app.py: result of the last get_available_regions call

vars == <<script, pc, indicatorFile, dictionaryFile, db, response, http, runStart, rerun,
          pc4, files4, response4, http4, runStart4, q, df, regions>>

loaderVars == <<pc, indicatorFile, dictionaryFile, db, response, http, runStart, rerun>>
fetch4Vars == <<pc4, files4, response4, http4, runStart4>>
appVars == <<q, df, regions>>

----------------------------------------------------------------------------
(* Bounds of the model *)

\* rows of a cached raw indicator file in the loader runs
MaxRawRows == 2
\* rows of a cached raw indicator file in the enrichment runs
MaxEnrichRows == 3
\* rows of indicator_with_region in the query runs
MaxQueryRows == 4

----------------------------------------------------------------------------
(* Values *)

NULL == "<null>"
NullNum == 0 - 1

RECURSIVE BagsUpTo(_, _)
BagsUpTo(S, n) ==
    IF n = 0 THEN {EmptyBag}
    ELSE LET P == BagsUpTo(S, n - 1)
         IN  P \cup { b (+) SetToBag({r}) : b \in P, r \in S }

\* the sum of the values of a function with a finite domain
RECURSIVE SumFn(_)
SumFn(f) ==
    IF DOMAIN f = {} THEN 0
    ELSE LET x == CHOOSE y \in DOMAIN f : TRUE
         IN  f[x] + SumFn([ y \in DOMAIN f \ {x} |-> f[y] ])

\* the rows of bag B that satisfy P, with their multiplicity
SelectBag(B, P(_)) ==
    LET S == { r \in BagToSet(B) : P(r) }
    IN  [ r \in S |-> B[r] ]

\* a file or table that does not exist, and one that holds the rows B
Absent == [exists |-> FALSE, rows |-> EmptyBag]
Holding(B) == [exists |-> TRUE, rows |-> B]

----------------------------------------------------------------------------
(* load_data.py: the raw CSV and the casts of the clean table *)

\* read_csv_auto(..., header=True): one table row per CSV line, an empty
\* field read as NULL
CsvField(text) == IF text = "" THEN NULL ELSE text
CsvRow(line) ==
    [REF_AREA    |-> CsvField(line.REF_AREA),
     TIME_PERIOD |-> CsvField(line.TIME_PERIOD),
     OBS_VALUE   |-> CsvField(line.OBS_VALUE)]
read_csv_auto(file) == BagOfAll(CsvRow, file.rows)
DictRow(line) ==
    [FIELD |-> CsvField(line.FIELD), DESCRIPTION |-> CsvField(line.DESCRIPTION)]
read_dictionary_csv(file) == BagOfAll(DictRow, file.rows)

\* the numerals the casts accept, with the number each denotes
IntegerText == ("2020" :> 2020) @@ ("2021" :> 2021)
DoubleText == ("61.5" :> 615) @@ ("70" :> 700) @@ ("55.0" :> 550) @@ ("48.2" :> 482)

\* CAST(x AS INTEGER), CAST(x AS DOUBLE): NULL stays NULL, a numeral becomes
\* its number, any other text is a conversion error
CastIntegerFails(x) == x # NULL /\ x \notin DOMAIN IntegerText
CastDoubleFails(x) == x # NULL /\ x \notin DOMAIN DoubleText
CastInteger(x) == IF x = NULL THEN NullNum ELSE IntegerText[x]
CastDouble(x) == IF x = NULL THEN NullNum ELSE DoubleText[x]

\* WHERE OBS_VALUE IS NOT NULL AND TIME_PERIOD IS NOT NULL
CleanWhereDropsOnlyNullValue(r) == r.OBS_VALUE # NULL
CleanWhere(r) == r.OBS_VALUE # NULL /\ r.TIME_PERIOD # NULL

\* the SELECT list of indicator_clean
CleanProject(r) ==
    [country_code |-> r.REF_AREA,
     year         |-> CastInteger(r.TIME_PERIOD),
     value        |-> CastDouble(r.OBS_VALUE)]

\* the rows the SELECT of indicator_clean yields, or the conversion error it
\* raises when a cast of a selected row fails
CleanSelectLenient(raw) ==
    LET Ok(r) == CleanWhere(r) /\ ~CastIntegerFails(r.TIME_PERIOD)
                              /\ ~CastDoubleFails(r.OBS_VALUE)
    IN  [raised |-> FALSE, rows |-> BagOfAll(CleanProject, SelectBag(raw, Ok))]
CleanSelect(raw) ==
    LET selected == SelectBag(raw, CleanWhere)
    IN  IF \E r \in BagToSet(selected) :
               CastIntegerFails(r.TIME_PERIOD) \/ CastDoubleFails(r.OBS_VALUE)
        THEN [raised |-> TRUE, rows |-> EmptyBag]
        ELSE [raised |-> FALSE, rows |-> BagOfAll(CleanProject, selected)]

----------------------------------------------------------------------------
(* load_data.py: the region lookup and the join *)

EastAsiaPacific == {"CHN", "JPN", "KOR", "AUS", "IDN", "THA", "VNM", "MYS", "PHL", "NZL"}
EuropeCentralAsia == {"DEU", "FRA", "GBR", "ITA", "ESP", "POL", "NLD", "TUR", "RUS", "UKR"}
LatinAmericaCaribbean == {"BRA", "MEX", "ARG", "COL", "CHL", "PER", "VEN"}
MiddleEastNorthAfrica == {"EGY", "SAU", "IRN", "IRQ", "MAR", "DZA"}
NorthAmerica == {"USA", "CAN"}
SouthAsia == {"IND", "PAK", "BGD", "LKA", "NPL"}
SubSaharanAfrica == {"NGA", "ZAF", "KEN", "ETH", "GHA", "TZA"}

\* the VALUES list of region_mapping, as rows t(country_code, region)
RegionOf(codes, name) == { [country_code |-> c, region |-> name] : c \in codes }
RegionMappingValues ==
    RegionOf(EastAsiaPacific, "East Asia & Pacific")
    \cup RegionOf(EuropeCentralAsia, "Europe & Central Asia")
    \cup RegionOf(LatinAmericaCaribbean, "Latin America & Caribbean")
    \cup RegionOf(MiddleEastNorthAfrica, "Middle East & North Africa")
    \cup RegionOf(NorthAmerica, "North America")
    \cup RegionOf(SouthAsia, "South Asia")
    \cup RegionOf(SubSaharanAfrica, "Sub-Saharan Africa")

\* UPPER(text): the country codes of the inputs that are not already uppercase
UpperText == ("usa" :> "USA") @@ ("can" :> "CAN")
Upper(x) ==
    IF x = NULL THEN NULL
    ELSE IF x \in DOMAIN UpperText THEN UpperText[x] ELSE x

\* COALESCE(a, b)
Coalesce(a, b) == IF a # NULL THEN a ELSE b

\* the left side of ON UPPER(i.country_code) = r.country_code
JoinKeyExact(i) == i.country_code
JoinKey(i) == Upper(i.country_code)

\* the right row of a left row that matches nothing: all NULL
NoMatch == [country_code |-> NULL, region |-> NULL]

\* SELECT i.*, COALESCE(r.region, 'Other') AS region
\* FROM indicator_clean i LEFT JOIN region_mapping r ON ...
JoinSelect(clean, mapping) ==
    LET Matches(i) == { m \in BagToSet(mapping) :
                          JoinKey(i) # NULL /\ JoinKey(i) = m.country_code }
        Pairs == { p \in BagToSet(clean) \X (BagToSet(mapping) \cup {NoMatch}) :
                     IF Matches(p[1]) = {} THEN p[2] = NoMatch
                     ELSE p[2] \in Matches(p[1]) }
        Row(p) == [country_code |-> p[1].country_code,
                   year         |-> p[1].year,
                   value        |-> p[1].value,
                   region       |-> Coalesce(p[2].region, "Other")]
        Copies(p) == clean[p[1]] * (IF p[2] = NoMatch THEN 1 ELSE mapping[p[2]])
        Out == { Row(p) : p \in Pairs }
    IN  [ o \in Out |-> SumFn([ p \in { x \in Pairs : Row(x) = o } |-> Copies(p) ]) ]

\* SELECT DISTINCT *
Distinct(B) == SetToBag(BagToSet(B))

\* CREATE OR REPLACE TABLE t AS <rows>: the table holds exactly the new rows
CreateThenInsert(old, new) == Holding(old.rows (+) new)
CreateOrReplace(old, new) == Holding(new)

----------------------------------------------------------------------------
(* load_data.py: the upstream responses *)

\* status codes requests.get may return: 200, a 3xx (requests follows
\* redirects, not the other 3xx answers), a 4xx
Statuses == {200, 304, 404}

\* Response.raise_for_status(): raises for 4xx and 5xx
RaisesNever(status) == FALSE
RaisesForStatus(status) == 400 <= status /\ status < 600

\* the lines the indicator endpoint may serve: a well-formed one, one with
\* an empty year, one with an empty value, one with a non-numeric value, one
\* with an unparseable year
RawLines ==
    { [REF_AREA |-> "usa", TIME_PERIOD |-> "2020", OBS_VALUE |-> "61.5"],
      [REF_AREA |-> "USA", TIME_PERIOD |-> "",     OBS_VALUE |-> "55.0"],
      [REF_AREA |-> "CAN", TIME_PERIOD |-> "2020", OBS_VALUE |-> ""],
      [REF_AREA |-> "IND", TIME_PERIOD |-> "2020", OBS_VALUE |-> "n/a"],
      [REF_AREA |-> "PAK", TIME_PERIOD |-> "20x",  OBS_VALUE |-> "48.2"] }
RawFiles == BagsUpTo(RawLines, MaxRawRows)

\* the bodies the dictionary endpoint may serve: one with a repeated line
DictLineA == [FIELD |-> "REF_AREA", DESCRIPTION |-> "Reference area"]
DictLineB == [FIELD |-> "OBS_VALUE", DESCRIPTION |-> "Observation value"]
DictionaryFiles ==
    { SetToBag({DictLineA, DictLineB}) (+) SetToBag({DictLineA}) }

NoResponse == [status |-> 0, content |-> EmptyBag]
NoResponse4 == [status |-> 0, data |-> [length |-> 0, entries |-> EmptyBag]]

\* "if not FILE.exists()": the fetch is skipped when the file is there
SkipsNever(file) == FALSE
SkipsFetch(file) == file.exists

NoTables ==
    [indicator_raw |-> Absent, dictionary |-> Absent, indicator_clean |-> Absent,
     region_mapping |-> Absent, indicator_with_region |-> Absent]
NoRun == [indicatorFile |-> Absent, dictionaryFile |-> Absent, db |-> NoTables]

----------------------------------------------------------------------------
(* app.py: the queries over indicator_with_region *)

\* HAVING COUNT(DISTINCT country_code) >= 3
MinCountriesLowered == 3 - 1
MinCountries == 3

\* a != b in SQL: not true when a is NULL
NotEqual(a, b) == a # NULL /\ a # b

\* WHERE region != 'Unknown' AND region IS NOT NULL AND region != ''
RegionValid(r) ==
    NotEqual(r.region, "Unknown") /\ r.region # NULL /\ NotEqual(r.region, "")

\* selected_regions: None or a list; year_range: None (the empty tuple here)
\* or (lo, hi).  "if x:" is false for None and for an empty list.
NoRegions == [none |-> TRUE, list |-> {}]
RegionList(S) == [none |-> FALSE, list |-> S]
Truthy(selected_regions) == ~selected_regions.none /\ selected_regions.list # {}

\* regions_str = ", ".join([f"'{r}'" for r in selected_regions]): each name is
\* pasted between two quote characters as it is.  A name that itself holds a
\* quote character ends its literal early and leaves the rest of the name
\* and an unmatched quote in the statement, which DuckDB refuses to parse.
NamesWithQuote == {"Cote d'Ivoire"}
RegionsStrParses(selected_regions) ==
    Truthy(selected_regions) => selected_regions.list \cap NamesWithQuote = {}

\* AND region IN (...)
InRegions(r, selected_regions) == r.region # NULL /\ r.region \in selected_regions.list

\* AND year >= lo AND year <= hi
InYearRange(r, year_range) ==
    r.year # NullNum /\ r.year >= year_range[1] /\ r.year <= year_range[2]

RECURSIVE Gcd(_, _)
Gcd(a, b) == IF b = 0 THEN a ELSE Gcd(b, a % b)

\* AVG(value): the mean of the non-NULL values, an exact fraction in lowest
\* terms; NULL (0/0) when there is none
Avg(rows) ==
    LET vals == SelectBag(rows, LAMBDA r : r.value # NullNum)
        sum == SumFn([ r \in BagToSet(vals) |-> r.value * vals[r] ])
        n == BagCardinality(vals)
        g == Gcd(sum, n)
    IN  IF n = 0 THEN [num |-> 0, den |-> 0] ELSE [num |-> sum \div g, den |-> n \div g]

\* COUNT(DISTINCT country_code): NULLs are not counted
CountRows(rows) == BagCardinality(rows)
CountDistinctCountryCode(rows) ==
    Cardinality({ r.country_code : r \in BagToSet(rows) } \ {NULL})

\* get_regional_data(selected_regions, year_range): the rows of the frame
\* that the statement yields when it parses
get_regional_data(table, selected_regions, year_range) ==
    LET Where(r) ==
            /\ RegionValid(r)
            /\ Truthy(selected_regions) => InRegions(r, selected_regions)
            /\ year_range # <<>> => InYearRange(r, year_range)
        matching == SelectBag(table.rows, Where)
        Keys == { <<r.region, r.year>> : r \in BagToSet(matching) }
        Group(k) == SelectBag(matching, LAMBDA r : r.region = k[1] /\ r.year = k[2])
    IN  { [region |-> k[1], year |-> k[2],
           avg_participation_rate |-> Avg(Group(k)),
           num_countries |-> CountDistinctCountryCode(Group(k))] :
          k \in { g \in Keys : CountDistinctCountryCode(Group(g)) >= MinCountries } }

\* get_available_regions(): SELECT DISTINCT region ... AND region != 'Other'
get_available_regions(table) ==
    { r.region : r \in { x \in BagToSet(table.rows) :
                           RegionValid(x) /\ NotEqual(x.region, "Other") } }

\* the arguments the dashboard passes
RegionArgs ==
    { NoRegions, RegionList({}), RegionList({"North America"}),
      RegionList({"Latin America & Caribbean", "Unknown"}),
      RegionList({"North America", "Cote d'Ivoire"}) }
YearRangeArgs == { <<>>, <<2020, 2020>>, <<2021, 2021>> }

----------------------------------------------------------------------------
(* load_data.py: main() = download_data(); load_into_duckdb() *)

Stopped == {"start", "done", "download_failed", "load_failed"}

\* python load_data.py
Main ==
    /\ script \in {"none", "load_data.py"}
    /\ pc \in Stopped
    /\ script' = "load_data.py"
    /\ pc' = "download_indicator"
    /\ http' = [indicator |-> 0, dictionary |-> 0]
    /\ runStart' = [indicatorFile |-> indicatorFile,
                    dictionaryFile |-> dictionaryFile, db |-> db]
    /\ rerun' = (pc \in {"done", "load_failed"})
    /\ UNCHANGED <<indicatorFile, dictionaryFile, db, response>>
    /\ UNCHANGED <<fetch4Vars, appVars>>

\* download_data: "if not INDICATOR_FILE.exists(): requests.get(INDICATOR_URL)"
DownloadIndicator ==
    /\ pc = "download_indicator"
    /\ IF SkipsFetch(indicatorFile)
       THEN pc' = "download_dictionary" /\ UNCHANGED <<response, http>>
       ELSE /\ \E status \in Statuses, content \in RawFiles :
                 response' = [status |-> status, content |-> content]
            /\ http' = [http EXCEPT !.indicator = @ + 1]
            /\ pc' = "indicator_response"
    /\ UNCHANGED <<indicatorFile, dictionaryFile, db, runStart, rerun>>
    /\ UNCHANGED <<script, fetch4Vars, appVars>>

\* download_data: response.raise_for_status(); INDICATOR_FILE.write_bytes(...)
IndicatorResponse ==
    /\ pc = "indicator_response"
    /\ IF RaisesForStatus(response.status)
       THEN pc' = "download_failed" /\ UNCHANGED indicatorFile
       ELSE pc' = "download_dictionary" /\ indicatorFile' = Holding(response.content)
    /\ response' = NoResponse
    /\ UNCHANGED <<dictionaryFile, db, http, runStart, rerun>>
    /\ UNCHANGED <<script, fetch4Vars, appVars>>

\* download_data: "if not DICTIONARY_FILE.exists(): requests.get(DICTIONARY_URL)"
DownloadDictionary ==
    /\ pc = "download_dictionary"
    /\ IF SkipsFetch(dictionaryFile)
       THEN pc' = "load_indicator_raw" /\ UNCHANGED <<response, http>>
       ELSE /\ \E status \in Statuses, content \in DictionaryFiles :
                 response' = [status |-> status, content |-> content]
            /\ http' = [http EXCEPT !.dictionary = @ + 1]
            /\ pc' = "dictionary_response"
    /\ UNCHANGED <<indicatorFile, dictionaryFile, db, runStart, rerun>>
    /\ UNCHANGED <<script, fetch4Vars, appVars>>

\* download_data: response.raise_for_status(); DICTIONARY_FILE.write_bytes(...)
DictionaryResponse ==
    /\ pc = "dictionary_response"
    /\ IF RaisesForStatus(response.status)
       THEN pc' = "download_failed" /\ UNCHANGED dictionaryFile
       ELSE pc' = "load_indicator_raw" /\ dictionaryFile' = Holding(response.content)
    /\ response' = NoResponse
    /\ UNCHANGED <<indicatorFile, db, http, runStart, rerun>>
    /\ UNCHANGED <<script, fetch4Vars, appVars>>

\* CREATE OR REPLACE TABLE indicator_raw AS SELECT * FROM read_csv_auto(...)
LoadIndicatorRaw ==
    /\ pc = "load_indicator_raw"
    /\ db' = [db EXCEPT !.indicator_raw =
                 CreateOrReplace(@, read_csv_auto(indicatorFile))]
    /\ pc' = "load_dictionary"
    /\ UNCHANGED <<indicatorFile, dictionaryFile, response, http, runStart, rerun>>
    /\ UNCHANGED <<script, fetch4Vars, appVars>>

\* CREATE OR REPLACE TABLE dictionary AS SELECT DISTINCT * FROM read_csv_auto(...)
LoadDictionary ==
    /\ pc = "load_dictionary"
    /\ db' = [db EXCEPT !.dictionary =
                 CreateOrReplace(@, Distinct(read_dictionary_csv(dictionaryFile)))]
    /\ pc' = "create_indicator_clean"
    /\ UNCHANGED <<indicatorFile, dictionaryFile, response, http, runStart, rerun>>
    /\ UNCHANGED <<script, fetch4Vars, appVars>>

\* CREATE OR REPLACE TABLE indicator_clean AS SELECT ... FROM indicator_raw WHERE ...
\* a conversion error leaves the statement without effect and ends the run
CreateIndicatorClean ==
    /\ pc = "create_indicator_clean"
    /\ LET result == CleanSelect(db.indicator_raw.rows)
       IN  IF result.raised
           THEN pc' = "load_failed" /\ UNCHANGED db
           ELSE /\ db' = [db EXCEPT !.indicator_clean = CreateOrReplace(@, result.rows)]
                /\ pc' = "create_region_mapping"
    /\ UNCHANGED <<indicatorFile, dictionaryFile, response, http, runStart, rerun>>
    /\ UNCHANGED <<script, fetch4Vars, appVars>>

\* CREATE OR REPLACE TABLE region_mapping AS SELECT * FROM (VALUES ...)
CreateRegionMapping ==
    /\ pc = "create_region_mapping"
    /\ db' = [db EXCEPT !.region_mapping =
                 CreateOrReplace(@, SetToBag(RegionMappingValues))]
    /\ pc' = "create_indicator_with_region"
    /\ UNCHANGED <<indicatorFile, dictionaryFile, response, http, runStart, rerun>>
    /\ UNCHANGED <<script, fetch4Vars, appVars>>

\* CREATE OR REPLACE TABLE indicator_with_region AS SELECT ... LEFT JOIN ...
\* then conn.close()
CreateIndicatorWithRegion ==
    /\ pc = "create_indicator_with_region"
    /\ db' = [db EXCEPT !.indicator_with_region =
                 CreateOrReplace(@, JoinSelect(db.indicator_clean.rows,
                                               db.region_mapping.rows))]
    /\ pc' = "done"
    /\ UNCHANGED <<indicatorFile, dictionaryFile, response, http, runStart, rerun>>
    /\ UNCHANGED <<script, fetch4Vars, appVars>>

\* between runs the user clears the cached indicator file, so that the next
\* run fetches it again (the cache has no other invalidation); the record of
\* the last run ends here
RemoveCachedFile ==
    /\ pc \in Stopped
    /\ indicatorFile.exists
    /\ indicatorFile' = Absent
    /\ pc' = "start"
    /\ http' = [indicator |-> 0, dictionary |-> 0]
    /\ runStart' = NoRun
    /\ rerun' = FALSE
    /\ UNCHANGED <<dictionaryFile, db, response>>
    /\ UNCHANGED <<script, fetch4Vars, appVars>>

----------------------------------------------------------------------------
(* Table4/fetch_data.py: main() = two calls of fetch_world_bank_data *)

\* the (indicator, name) arguments of the calls main() makes, in order
Calls ==
    << [indicator |-> "SL.TLF.CACT.FE.ZS", name |-> "female_labor_force_participation"],
       [indicator |-> "SL.UEM.TOTL.FE.ZS", name |-> "female_unemployment"] >>
Names == { Calls[i].name : i \in DOMAIN Calls }

\* response.json(): a JSON array [metadata] or [metadata, entries]; length is
\* len(data), entries is data[1]
EntryCAN == [country |-> [value |-> "Canada"], countryiso3code |-> "CAN",
             date |-> "2020", value |-> "61.5"]
EntryUSA == [country |-> [value |-> "United States"], countryiso3code |-> "USA",
             date |-> "2021", value |-> NULL]
JsonBodies ==
    { [length |-> 1, entries |-> EmptyBag],
      [length |-> 2, entries |-> SetToBag({EntryCAN})],
      [length |-> 2, entries |-> SetToBag({EntryCAN, EntryUSA})] }

\* the record appended per entry, and DataFrame.to_csv (None written empty)
Record(entry) ==
    [country |-> entry.country.value, countryiso3code |-> entry.countryiso3code,
     date |-> entry.date, value |-> IF entry.value = NULL THEN "" ELSE entry.value]
ToCsv(entries) == BagOfAll(Record, entries)

\* "if response.status_code == 200"
StatusOk(status) == status = 200

\* python fetch_data.py
Main4 ==
    /\ script \in {"none", "fetch_data.py"}
    /\ pc4 \in {"start", "done"}
    /\ script' = "fetch_data.py"
    /\ pc4' = "fetch_1"
    /\ http4' = [n \in Names |-> 0]
    /\ runStart4' = files4
    /\ UNCHANGED <<files4, response4>>
    /\ UNCHANGED <<loaderVars, appVars>>

\* fetch_world_bank_data: requests.get(url, headers=headers)
FetchWorldBankData(i) ==
    /\ pc4 = IF i = 1 THEN "fetch_1" ELSE "fetch_2"
    /\ \E status \in Statuses, data \in JsonBodies :
          response4' = [status |-> status, data |-> data]
    /\ http4' = [http4 EXCEPT ![Calls[i].name] = @ + 1]
    /\ pc4' = IF i = 1 THEN "response_1" ELSE "response_2"
    /\ UNCHANGED <<files4, runStart4>>
    /\ UNCHANGED <<script, loaderVars, appVars>>

\* fetch_world_bank_data: the branches on status_code and len(data)
FetchResponse(i) ==
    /\ pc4 = IF i = 1 THEN "response_1" ELSE "response_2"
    /\ IF StatusOk(response4.status) /\ response4.data.length > 1
       THEN files4' = [files4 EXCEPT ![Calls[i].name] =
                          Holding(ToCsv(response4.data.entries))]
       ELSE UNCHANGED files4
    /\ response4' = NoResponse4
    /\ pc4' = IF i = 1 THEN "fetch_2" ELSE "done"
    /\ UNCHANGED <<http4, runStart4>>
    /\ UNCHANGED <<script, loaderVars, appVars>>

----------------------------------------------------------------------------
(* app.py: the dashboard reads the database between runs of the loader *)

\* regional_df = get_regional_data(selected_regions, year_range)
GetRegionalData ==
    /\ pc \in Stopped
    /\ db.indicator_with_region.exists
    /\ \E selected_regions \in RegionArgs, year_range \in YearRangeArgs :
          /\ q' = [selected_regions |-> selected_regions,
                   year_range |-> year_range, called |-> TRUE,
                   raised |-> ~RegionsStrParses(selected_regions)]
          /\ df' = IF RegionsStrParses(selected_regions)
                   THEN get_regional_data(db.indicator_with_region,
                                          selected_regions, year_range)
                   ELSE {}
    /\ UNCHANGED regions
    /\ UNCHANGED <<script, loaderVars, fetch4Vars>>

\* available_regions = get_available_regions()
GetAvailableRegions ==
    /\ pc \in Stopped
    /\ db.indicator_with_region.exists
    /\ regions' = get_available_regions(db.indicator_with_region)
    /\ UNCHANGED <<q, df>>
    /\ UNCHANGED <<script, loaderVars, fetch4Vars>>

----------------------------------------------------------------------------
NoQuery ==
    [selected_regions |-> NoRegions, year_range |-> <<>>, called |-> FALSE,
     raised |-> FALSE]

Init ==
    /\ script = "none"
    /\ pc = "start"
    /\ indicatorFile = Absent
    /\ dictionaryFile = Absent
    /\ db = NoTables
    /\ response = NoResponse
    /\ http = [indicator |-> 0, dictionary |-> 0]
    /\ runStart = NoRun
    /\ rerun = FALSE
    /\ pc4 = "start"
    /\ files4 = [n \in Names |-> Absent]
    /\ response4 = NoResponse4
    /\ http4 = [n \in Names |-> 0]
    /\ runStart4 = [n \in Names |-> Absent]
    /\ q = NoQuery
    /\ df = {}
    /\ regions = {}

Next ==
    \/ Main
    \/ DownloadIndicator
    \/ IndicatorResponse
    \/ DownloadDictionary
    \/ DictionaryResponse
    \/ LoadIndicatorRaw
    \/ LoadDictionary
    \/ CreateIndicatorClean
    \/ CreateRegionMapping
    \/ CreateIndicatorWithRegion
    \/ RemoveCachedFile
    \/ Main4
    \/ \E i \in DOMAIN Calls : FetchWorldBankData(i)
    \/ \E i \in DOMAIN Calls : FetchResponse(i)

Spec == Init /\ [][Next]_vars


----------------------------------------------------------------------------
(* load_into_duckdb over cached raw files, then the dashboard's queries *)

\* cached indicator lines: country codes in upper and lower case, mapped and
\* unmapped, an empty country code, a second year and value, an empty year,
\* an empty value
EnrichLines ==
    { [REF_AREA |-> c, TIME_PERIOD |-> "2020", OBS_VALUE |-> "61.5"] :
        c \in {"USA", "CAN", "usa", "MEX", "BRA", "ARG", "XYZ", ""} }
    \cup { [REF_AREA |-> "MEX", TIME_PERIOD |-> "2021", OBS_VALUE |-> "70"],
           [REF_AREA |-> "USA", TIME_PERIOD |-> "", OBS_VALUE |-> "55.0"],
           [REF_AREA |-> "CAN", TIME_PERIOD |-> "2021", OBS_VALUE |-> ""] }
EnrichFiles == BagsUpTo(EnrichLines, MaxEnrichRows)

InitEnrich ==
    /\ script = "load_data.py"
    /\ pc = "load_indicator_raw"
    /\ indicatorFile \in { Holding(f) : f \in EnrichFiles }
    /\ dictionaryFile \in { Holding(f) : f \in DictionaryFiles }
    /\ db = NoTables
    /\ response = NoResponse
    /\ http = [indicator |-> 0, dictionary |-> 0]
    /\ runStart = [indicatorFile |-> indicatorFile,
                   dictionaryFile |-> dictionaryFile, db |-> NoTables]
    /\ rerun = FALSE
    /\ pc4 = "start"
    /\ files4 = [n \in Names |-> Absent]
    /\ response4 = NoResponse4
    /\ http4 = [n \in Names |-> 0]
    /\ runStart4 = [n \in Names |-> Absent]
    /\ q = NoQuery
    /\ df = {}
    /\ regions = {}

NextEnrich ==
    \/ LoadIndicatorRaw
    \/ LoadDictionary
    \/ CreateIndicatorClean
    \/ CreateRegionMapping
    \/ CreateIndicatorWithRegion
    \/ GetRegionalData
    \/ GetAvailableRegions

SpecEnrich == InitEnrich /\ [][NextEnrich]_vars

----------------------------------------------------------------------------
(* get_regional_data over any content of indicator_with_region *)

\* rows of the table: three country codes under each region value (two
\* regions, 'Unknown', '' and NULL), both years under the first region, a
\* value per country code, a second value for one cell, a NULL country code
QueryValue == ("USA" :> 100) @@ ("CAN" :> 200) @@ ("MEX" :> 400)
QueryRows ==
    { [country_code |-> c, year |-> 2020, value |-> QueryValue[c], region |-> g] :
        c \in DOMAIN QueryValue,
        g \in {"North America", "Latin America & Caribbean", "Unknown"} }
    \cup { [country_code |-> c, year |-> 2020, value |-> QueryValue[c], region |-> g] :
            c \in {"USA", "CAN"}, g \in {"", NULL} }
    \cup { [country_code |-> c, year |-> 2021, value |-> QueryValue[c],
            region |-> "North America"] : c \in DOMAIN QueryValue }
    \cup { [country_code |-> "USA", year |-> 2020, value |-> 200, region |-> "North America"],
           [country_code |-> NULL, year |-> 2020, value |-> 400, region |-> "North America"] }
QueryTables == BagsUpTo(QueryRows, MaxQueryRows)

InitQuery ==
    /\ script = "load_data.py"
    /\ pc = "done"
    /\ indicatorFile = Absent
    /\ dictionaryFile = Absent
    /\ db \in { [NoTables EXCEPT !.indicator_with_region = Holding(t)] : t \in QueryTables }
    /\ response = NoResponse
    /\ http = [indicator |-> 0, dictionary |-> 0]
    /\ runStart = NoRun
    /\ rerun = FALSE
    /\ pc4 = "start"
    /\ files4 = [n \in Names |-> Absent]
    /\ response4 = NoResponse4
    /\ http4 = [n \in Names |-> 0]
    /\ runStart4 = [n \in Names |-> Absent]
    /\ q = NoQuery
    /\ df = {}
    /\ regions = {}

NextQuery ==
    \/ GetRegionalData

SpecQuery == InitQuery /\ [][NextQuery]_vars

----------------------------------------------------------------------------
(* Properties of load_data.py and fetch_data.py, checked under Spec *)

\* the run of load_into_duckdb has executed the indicator_clean statement
\* with success
PastClean == pc \in {"create_region_mapping", "create_indicator_with_region", "done"}

NonNullLine(l) == l.OBS_VALUE # "" /\ l.TIME_PERIOD # ""
MalformedLine(l) ==
    \/ l.TIME_PERIOD # "" /\ l.TIME_PERIOD \notin {"2020", "2021"}
    \/ l.OBS_VALUE # "" /\ l.OBS_VALUE \notin {"61.5", "70", "55.0", "48.2"}
\* a malformed line that reaches the casts
CastMeets(l) == NonNullLine(l) /\ MalformedLine(l)
Lines == BagToSet(indicatorFile.rows)

\* C1: when a statement of load_into_duckdb fails, a reader sees every table
\* with the contents it had before the run started.
C1_FailedLoadLeavesEveryTable == pc = "load_failed" => db = runStart.db

\* C4 as stated: a malformed line met by the casts is dropped without an
\* error; the load goes on and indicator_clean holds the well-formed rows.
C4_MalformedRowIsDropped ==
    (pc = "load_failed" \/ PastClean) /\ (\E l \in Lines : CastMeets(l))
        => /\ pc # "load_failed"
           /\ BagCardinality(db.indicator_clean.rows) =
                 SumFn([ l \in { x \in Lines : NonNullLine(x) /\ ~MalformedLine(x) }
                           |-> indicatorFile.rows[l] ])

\* C4 amended: a malformed line met by the casts raises; the load ends at the
\* clean-table statement, which leaves indicator_clean, region_mapping and
\* indicator_with_region as they were before the run, and a load gets past
\* that statement only when the file holds no such line.
C4_MalformedRowAbortsLoad ==
    /\ pc = "load_failed" =>
          /\ \E l \in Lines : CastMeets(l)
          /\ db.indicator_clean = runStart.db.indicator_clean
          /\ db.region_mapping = runStart.db.region_mapping
          /\ db.indicator_with_region = runStart.db.indicator_with_region
    /\ PastClean => ~ \E l \in Lines : CastMeets(l)

C4_Witness ==
    /\ pc = "load_failed"
    /\ \E l \in Lines : CastMeets(l)
    /\ \E l \in Lines : NonNullLine(l) /\ ~MalformedLine(l)
    /\ runStart.db.indicator_clean.exists

\* the tables a load of the given raw files builds from nothing
TablesOf(indicator, dictionary) ==
    LET raw == read_csv_auto(indicator)
        clean == CleanSelect(raw).rows
        mapping == SetToBag(RegionMappingValues)
    IN  [indicator_raw |-> Holding(raw),
         dictionary |-> Holding(Distinct(read_dictionary_csv(dictionary))),
         indicator_clean |-> Holding(clean),
         region_mapping |-> Holding(mapping),
         indicator_with_region |-> Holding(JoinSelect(clean, mapping))]

C8_CacheByPresence ==
    /\ pc # "start" =>
          /\ runStart.indicatorFile.exists =>
                http.indicator = 0 /\ indicatorFile = runStart.indicatorFile
          /\ runStart.dictionaryFile.exists =>
                http.dictionary = 0 /\ dictionaryFile = runStart.dictionaryFile
    /\ pc4 # "start" =>
          \A n \in Names : runStart4[n].exists => http4[n] = 0 /\ files4[n] = runStart4[n]

\* C8 amended: download_data caches by presence, for each of its two
\* datasets: a file present at the start of the run is neither requested nor
\* changed, and a request is made only for a file that was absent.
\* fetch_world_bank_data has no such check: each call makes its request
\* whether the file exists or not.
C8_DownloadDataCachesByPresence ==
    /\ pc # "start" =>
          /\ runStart.indicatorFile.exists =>
                http.indicator = 0 /\ indicatorFile = runStart.indicatorFile
          /\ runStart.dictionaryFile.exists =>
                http.dictionary = 0 /\ dictionaryFile = runStart.dictionaryFile
          /\ http.indicator > 0 => ~runStart.indicatorFile.exists
          /\ http.dictionary > 0 => ~runStart.dictionaryFile.exists
    /\ pc4 \in {"response_1", "fetch_2", "response_2", "done"} =>
          http4[Calls[1].name] = 1
    /\ pc4 \in {"response_2", "done"} => http4[Calls[2].name] = 1

C8_Witness ==
    /\ pc = "done"
    /\ rerun
    /\ runStart.indicatorFile.exists /\ runStart.dictionaryFile.exists
    /\ http.indicator = 0 /\ http.dictionary = 0
    /\ BagCardinality(indicatorFile.rows) > 0

Non2xx(status) == status < 200 \/ status >= 300
Error4xx5xx(status) == 400 <= status /\ status < 600

\* C9 as stated: on a non-2xx response the fetcher has made exactly one
\* request for the dataset, leaves every file as it was, and goes on to the
\* next dataset of the run.
C9_FailureIsPerDataset ==
    [][ /\ (pc = "indicator_response" /\ pc' # pc /\ Non2xx(response.status))
            => /\ http.indicator = 1
               /\ indicatorFile' = indicatorFile /\ dictionaryFile' = dictionaryFile
               /\ pc' = "download_dictionary"
        /\ (pc = "dictionary_response" /\ pc' # pc /\ Non2xx(response.status))
            => /\ http.dictionary = 1
               /\ indicatorFile' = indicatorFile /\ dictionaryFile' = dictionaryFile
        /\ \A i \in DOMAIN Calls :
              (pc4 = (IF i = 1 THEN "response_1" ELSE "response_2") /\ pc4' # pc4
                 /\ Non2xx(response4.status))
              => /\ http4[Calls[i].name] = 1
                 /\ files4' = files4
                 /\ pc4' = (IF i = 1 THEN "fetch_2" ELSE "done") ]_vars

\* C9 amended: on a 4xx or 5xx response download_data has made exactly one
\* request for the dataset, leaves every file as it was and raises, which
\* ends the run: after a failed indicator request the dictionary is not
\* requested.  On a response other than 200 fetch_world_bank_data has made
\* exactly one request for the dataset, leaves every file as it was and goes
\* on to the next call.
C9_FailureEndsDownloadData ==
    [][ /\ (pc = "indicator_response" /\ pc' # pc /\ Error4xx5xx(response.status))
            => /\ http.indicator = 1 /\ http'.dictionary = 0
               /\ indicatorFile' = indicatorFile /\ dictionaryFile' = dictionaryFile
               /\ pc' = "download_failed"
        /\ (pc = "dictionary_response" /\ pc' # pc /\ Error4xx5xx(response.status))
            => /\ http.dictionary = 1
               /\ indicatorFile' = indicatorFile /\ dictionaryFile' = dictionaryFile
               /\ pc' = "download_failed"
        /\ \A i \in DOMAIN Calls :
              (pc4 = (IF i = 1 THEN "response_1" ELSE "response_2") /\ pc4' # pc4
                 /\ response4.status # 200)
              => /\ http4[Calls[i].name] = 1
                 /\ files4' = files4
                 /\ pc4' = (IF i = 1 THEN "fetch_2" ELSE "done") ]_vars

C9_Witness ==
    /\ pc = "download_failed"
    /\ http.indicator = 1 /\ http.dictionary = 0
    /\ ~indicatorFile.exists /\ ~dictionaryFile.exists

----------------------------------------------------------------------------
(* Properties of the clean table and the enrichment, checked under SpecEnrich *)

\* C2: once the clean-table statement has run, indicator_clean holds exactly
\* one row (year as integer, value as double, the country code renamed, an
\* empty one NULL) per raw line whose OBS_VALUE and TIME_PERIOD are both
\* non-null and none for the others, so its row count is the number of such
\* lines.
C2_CleanHoldsTheNonNullRows ==
    PastClean =>
        LET clean == db.indicator_clean.rows
            Typed(l) == [country_code |-> IF l.REF_AREA = "" THEN NULL ELSE l.REF_AREA,
                         year  |-> IntegerText[l.TIME_PERIOD],
                         value |-> DoubleText[l.OBS_VALUE]]
            Kept == { l \in Lines : NonNullLine(l) }
            CountOf(row) == SumFn([ l \in { x \in Kept : Typed(x) = row }
                                      |-> indicatorFile.rows[l] ])
        IN  /\ db.indicator_clean.exists
            /\ BagCardinality(clean) = SumFn([ l \in Kept |-> indicatorFile.rows[l] ])
            /\ \A l \in Kept : CopiesIn(Typed(l), clean) = CountOf(Typed(l))
            /\ \A r \in BagToSet(clean) : r.year # NullNum /\ r.value # NullNum

C2_Witness ==
    /\ pc = "done"
    /\ \E l \in Lines : ~NonNullLine(l)
    /\ \E l \in Lines : NonNullLine(l) /\ indicatorFile.rows[l] = 2
    /\ BagCardinality(db.indicator_clean.rows) = 2

\* the region the lookup gives an uppercased country code, "Other" without one
LookupRegion(code) ==
    LET hits == { m \in RegionMappingValues : code # NULL /\ m.country_code = Upper(code) }
    IN  IF hits = {} THEN "Other" ELSE (CHOOSE m \in hits : TRUE).region

\* C3: after a completed load every row of indicator_with_region has a
\* non-null region, year and value; its region is the lookup's region for
\* the uppercased country code, and "Other" when the lookup has no such key.
C3_EveryRowHasItsRegion ==
    pc = "done" =>
        \A r \in BagToSet(db.indicator_with_region.rows) :
            /\ r.region # NULL /\ r.year # NullNum /\ r.value # NullNum
            /\ r.region = LookupRegion(r.country_code)

C3_Witness ==
    /\ pc = "done"
    /\ \E r \in BagToSet(db.indicator_with_region.rows) :
          r.country_code = "usa" /\ r.region = "North America"
    /\ \E r \in BagToSet(db.indicator_with_region.rows) :
          r.country_code = "XYZ" /\ r.region = "Other"
    /\ \E l \in Lines : ~NonNullLine(l)

\* C10: over a table loaded from raw lines whose country codes are all
\* uppercase, a row get_regional_data returns for a region other than
\* "Other" counts at most as many countries as the lookup maps to that
\* region, and "North America" (USA and CAN only) is never returned, even
\* when get_available_regions lists it.
C10_NorthAmericaIsNeverReturned ==
    (q.called /\ \A l \in Lines : l.REF_AREA \notin {"usa", "can"}) =>
        \A row \in df :
            /\ row.region # "Other" =>
                  row.num_countries <=
                      Cardinality({ m \in RegionMappingValues : m.region = row.region })
            /\ row.region # "North America"

C10_Witness ==
    /\ q.called /\ ~Truthy(q.selected_regions) /\ q.year_range = <<>>
    /\ \A l \in Lines : l.REF_AREA \notin {"usa", "can"}
    /\ \E l \in Lines : l.REF_AREA = "USA" /\ NonNullLine(l)
    /\ \E l \in Lines : l.REF_AREA = "CAN" /\ NonNullLine(l)
    /\ "North America" \in regions
    /\ \A row \in df : row.region # "North America"

----------------------------------------------------------------------------
(* Properties of get_regional_data, checked under SpecQuery *)

Table == db.indicator_with_region.rows
ValidRows == SelectBag(Table, LAMBDA r : r.region \notin {"Unknown", NULL, ""})
GroupKeys == { <<r.region, r.year>> : r \in BagToSet(ValidRows) }
Members(k) == SelectBag(ValidRows, LAMBDA r : r.region = k[1] /\ r.year = k[2])
Codes(k) == { r.country_code : r \in BagToSet(Members(k)) } \ {NULL}
ValueSum(k) == SumFn([ r \in BagToSet(Members(k)) |-> r.value * Members(k)[r] ])
Unfiltered == q.called /\ ~Truthy(q.selected_regions) /\ q.year_range = <<>>

Kept(row, S, year_range) ==
    /\ row.region \in S
    /\ row.year >= year_range[1] /\ row.year <= year_range[2]

\* C7: with a region list R and a year range (lo, hi) supplied,
\* get_regional_data returns exactly the rows of the unfiltered result whose
\* region is in R and whose year is within lo..hi, averages and counts
\* untouched.
C7_FiltersSelectUnfilteredRows ==
    (q.called /\ ~q.selected_regions.none /\ q.year_range # <<>>) =>
        /\ ~q.raised
        /\ df = { row \in get_regional_data(db.indicator_with_region, NoRegions, <<>>) :
                   Kept(row, q.selected_regions.list, q.year_range) }

\* where the statement parses and the list is not empty, the stated result
\* is met
C7_PlainListMet ==
    (q.called /\ ~q.raised /\ q.selected_regions.list # {} /\ q.year_range # <<>>) =>
        df = { row \in get_regional_data(db.indicator_with_region, NoRegions, <<>>) :
                 Kept(row, q.selected_regions.list, q.year_range) }
====
